---- MODULE Spec2Model ----
(***************************************************************************)
(* Model of the elba package cache (src/lib/retrieve/cache.rs) and of the  *)
(* package identity types it uses (src/lib/package).                       *)
(*                                                                         *)
(* Strings are sequences of one-character strings; a PathBuf is a sequence *)
(* of components, each a string.  Several processes (or threads) run       *)
(* against one cache root; every filesystem access of a handler is one     *)
(* step, so that the steps of different processes interleave.              *)
(***************************************************************************)
EXTENDS Integers, Sequences, FiniteSets, TLC

\* Number of processes working on the same cache root.
NumProcs == 2
\* Number of Cache calls the processes issue in total.
MaxCalls == 2

Procs == 1..NumProcs

-----------------------------------------------------------------------------
(* Strings and the identity types.                                         *)

DigitChar == <<"0", "1", "2", "3", "4", "5", "6", "7", "8", "9">>

RECURSIVE NatToString(_)
NatToString(n) ==
    IF n < 10 THEN <<DigitChar[n + 1]>>
    ELSE NatToString(n \div 10) \o <<DigitChar[(n % 10) + 1]>>

\* semver::Version as <<major, minor, patch>>; its Display is "major.minor.patch".
VersionToString(v) ==
    NatToString(v[1]) \o <<".">> \o NatToString(v[2]) \o <<".">> \o NatToString(v[3])

\* Option<&Version>: None
NoVersion == <<>>

\* Name::new
Name(group, name) ==
    [group |-> group, name |-> name, serialization |-> group \o <<"/">> \o name]

\* impl Display for PkgGitSpecifier: every variant is written with the tag "branch="
PkgGitSpecifierToString(spec) ==
    CASE spec.kind = "Branch" -> <<"b", "r", "a", "n", "c", "h", "=">> \o spec.val
      [] spec.kind = "Commit" -> <<"b", "r", "a", "n", "c", "h", "=">> \o spec.val
      [] spec.kind = "Tag" -> <<"b", "r", "a", "n", "c", "h", "=">> \o spec.val

\* Path::display: the components of a path, separated by "/"
RECURSIVE PathToString(_)
PathToString(path) ==
    IF path = <<>> THEN <<>>
    ELSE IF Len(path) = 1 THEN path[1]
    ELSE path[1] \o <<"/">> \o PathToString(Tail(path))

\* impl Display for DirectRes: "<scheme>+<url>", a git locator followed by its reference
DirectResToString(loc) ==
    CASE loc.kind = "Dir" -> <<"d", "i", "r", "+">> \o PathToString(loc.url)
      [] loc.kind = "Tar" -> <<"t", "a", "r", "+">> \o loc.url
      [] loc.kind = "Git" ->
            <<"g", "i", "t", "+">> \o loc.repo \o <<"#">> \o PkgGitSpecifierToString(loc.tag)

\* Sha256 followed by hexify_hash: an ideal (collision-free) hash, represented
\* by the byte string that was fed to the hasher.
Sha256Hex(bytes) == bytes

\* get_src_dir that hashes the version of every kind of locator
GetSrcDirAnyVersion(name, loc, v) ==
    LET hashed == name.serialization \o DirectResToString(loc)
                    \o (IF v # NoVersion THEN VersionToString(v) ELSE <<>>)
    IN  name.group \o <<"_">> \o name.name \o <<"-">> \o Sha256Hex(hashed)

\* Cache::get_src_dir
GetSrcDir(name, loc, v) ==
    LET hashed == name.serialization \o DirectResToString(loc)
                    \o (IF v # NoVersion /\ loc.kind = "Tar" THEN VersionToString(v) ELSE <<>>)
    IN  name.group \o <<"_">> \o name.name \o <<"-">> \o Sha256Hex(hashed)

-----------------------------------------------------------------------------
(* Paths.                                                                  *)

\* Cache.location
Location == << <<"c">> >>

\* PathBuf::push / PathBuf::join
Join(path, component) == Append(path, component)

\* Option<PathBuf>: None (also "no handle")
NoPath == <<>>

\* the path load and check compute: location/src/<get_src_dir>
SrcPath(name, loc, v) == Join(Join(Location, <<"s", "r", "c">>), GetSrcDir(name, loc, v))

-----------------------------------------------------------------------------
(* The requests the processes issue.                                       *)

NameA == Name(<<"g">>, <<"a">>)

TarLoc == [kind |-> "Tar", url |-> <<"t">>, cksum |-> <<"k">>]
GitLoc == [kind |-> "Git", repo |-> <<"r">>, tag |-> [kind |-> "Branch", val |-> <<"m">>]]
DirLoc == [kind |-> "Dir", url |-> << <<"d">> >>]
\* the same repository at the tag m
GitTagLoc == [kind |-> "Git", repo |-> <<"r">>, tag |-> [kind |-> "Tag", val |-> <<"m">>]]

VersionA == <<1, 0, 0>>

\* (pkg.name(), loc, v) of a load, check or checkout_source call
Requests ==
    { [name |-> NameA, loc |-> TarLoc, v |-> VersionA],
      [name |-> NameA, loc |-> GitLoc, v |-> NoVersion],
      [name |-> NameA, loc |-> GitTagLoc, v |-> NoVersion],
      [name |-> NameA, loc |-> DirLoc, v |-> NoVersion] }

NonDirRequests == {r \in Requests : r.loc.kind # "Dir"}
DirRequests == {r \in Requests : r.loc.kind = "Dir"}

\* a Build: the name of its summary and its hash
BuildA == [name |-> NameA, hash |-> <<"h">>]

\* a Build of the same package with another hash
BuildB == [name |-> NameA, hash |-> <<"j">>]

Builds == {BuildA, BuildB}

\* Build::dir_name
DirName(build) == build.name.group \o <<"_">> \o build.name.name \o <<"-">> \o build.hash

\* checkout_build that keeps the builds in the subtree of the sources
BuildPathInSrc(build) == Join(Join(Location, <<"s", "r", "c">>), DirName(build))

\* the path checkout_build computes: location/build/<dir_name>
BuildPath(build) == Join(Join(Location, <<"b", "u", "i", "l", "d">>), DirName(build))

\* a local directory that holds an index
DirIndexLoc == [kind |-> "Dir", url |-> << <<"i">> >>]

\* the index_reses of a get_indices call
IndexList == [reses |-> <<GitLoc, DirIndexLoc>>]

\* index_reses of local directories, the second of them also a Dir dependency
DirIndexList == [reses |-> <<DirIndexLoc, DirLoc>>]

IndexLists == {IndexList, DirIndexList}

IndexLocs == {l.reses[i] : l \in IndexLists, i \in 1..2}

\* Cache::get_index_dir
GetIndexDir(loc) == Sha256Hex(DirectResToString(loc))

\* the path get_indices locks for an index: the literal path of a Dir
\* locator, else location/indices/<get_index_dir>
IndexPath(loc) ==
    IF loc.kind = "Dir" THEN loc.url
    ELSE Join(Join(Location, <<"i", "n", "d", "i", "c", "e", "s">>), GetIndexDir(loc))

SrcPaths == {SrcPath(r.name, r.loc, r.v) : r \in Requests}
DirPaths == {r.loc.url : r \in DirRequests} \cup {l.url : l \in {i \in IndexLocs : i.kind = "Dir"}}
BuildPaths == {BuildPath(b) : b \in Builds}
IndexPaths == {IndexPath(l) : l \in {i \in IndexLocs : i.kind # "Dir"}}
Paths == SrcPaths \cup DirPaths \cup BuildPaths \cup IndexPaths

-----------------------------------------------------------------------------
(* State.                                                                  *)

VARIABLES
    fs,        \* path -> "absent", "empty", "partial" or "full": the directory at that path
    mf,        \* path -> "none", "bad" or "good": the manifest file in that directory
    locked,    \* path -> whether the directory lock of that path is taken
    pc,        \* process -> its position in the call it is running ("idle": in no call)
    op,        \* process -> the Cache operation it runs, or ran last
    req,       \* process -> the (name, loc, v) of that call, or its index_reses
    path,      \* process -> the path the call computed (the local path / p)
    dir,       \* process -> the lock handle the running call owns (the local dir / p)
    res,       \* process -> the result of its last call: "Ok" or the error kind
    ret,       \* process -> the path that call returned (of a DirLock, a Source or check)
    held,      \* process -> the paths whose lock handles the caller got and still keeps
    ncalls,    \* the number of calls the processes have issued
    nRetr,     \* path -> the number of times retrieve was invoked on it (history)
    callRetr,  \* process -> the number of times its current or last call invoked retrieve
    maxDone,   \* path -> the most retrievals a load of it that has returned invoked
    avail,     \* the requests, builds and index lists the processes of this run work on
    prior,     \* process -> maxDone of its call's key when the call began
    todo,      \* process -> the locators get_indices has still to go through
    indices,   \* process -> the locators of the indices get_indices has loaded
    before,    \* process -> the paths that existed when its get_indices call began (history)
    failed,    \* process -> the locators its get_indices call failed to lock, retrieve or load
    found,     \* process -> what check returned at the start of its load: "absent" or "present"
    pure       \* the pure function under evaluation: its name, its input, its output

vars == <<fs, mf, locked, pc, op, req, path, dir, res, ret, held, ncalls,
          nRetr, callRetr, maxDone, avail, prior, todo, indices,
          before, failed, found, pure>>

\* no pure function is under evaluation
NoPure == [fn |-> "none", arg |-> <<>>, out |-> <<>>, done |-> FALSE]

Manifests == {"none", "bad", "good"}

LoadOps == {"load", "checkout_source"}

NoRequest == [name |-> Name(<<>>, <<>>), loc |-> [kind |-> "None"], v |-> NoVersion]

\* Path::exists
Exists(p) == fs[p] # "absent"

\* the path a request is stored at: the literal path of a Dir locator, else the hashed path
KeyPath(r) == IF r.loc.kind = "Dir" THEN r.loc.url ELSE SrcPath(r.name, r.loc, r.v)

Max(a, b) == IF a >= b THEN a ELSE b

-----------------------------------------------------------------------------
(* The scoped directory lock, util::lock::DirLock.                         *)

\* DirLock::acquire succeeds unless another handle holds the path or the
\* directory cannot be created (io = FALSE)
CanAcquire(p, io) == ~locked[p] /\ (Exists(p) \/ io)

\* DirLock::acquire, successful: creates the directory if absent and takes the lock
Acquired(p) ==
    /\ locked' = [locked EXCEPT ![p] = TRUE]
    /\ fs' = [fs EXCEPT ![p] = IF @ = "absent" THEN "empty" ELSE @]

\* impl Drop for DirLock
Released(p) == locked' = [locked EXCEPT ![p] = FALSE]

-----------------------------------------------------------------------------
(* Cache::check.                                                           *)

\* Check without the special case of Dir locators
CheckNoDirCase(name, loc, v) ==
    LET p == SrcPath(name, loc, v)
    IN  IF Exists(p) THEN p ELSE NoPath

\* Check that looks for the package at a path that is never created
CheckNeverCached(name, loc, v) ==
    IF loc.kind = "Dir" THEN loc.url ELSE NoPath

\* Check that reports the hashed path without looking for it on disk
CheckNoExistsTest(name, loc, v) ==
    IF loc.kind = "Dir" THEN loc.url ELSE SrcPath(name, loc, v)

Check(name, loc, v) ==
    IF loc.kind = "Dir" THEN loc.url
    ELSE LET p == SrcPath(name, loc, v)
         IN  IF Exists(p) THEN p ELSE NoPath

-----------------------------------------------------------------------------
(* Init.                                                                   *)

\* the workloads of a run: the git keys, a tar key next to a build, two
\* builds, a list of indices, a local directory next to a list of local indices that names it
Scenarios ==
    {{q \in Requests : q.loc.kind = "Git"}}
        \cup {{r, BuildA} : r \in {q \in Requests : q.loc.kind = "Tar"}}
        \cup {Builds}
        \cup {{IndexList}}
        \cup {{d, DirIndexList} : d \in DirRequests}

\* no process is in a call, no lock is taken, nothing was retrieved
Idle ==
    /\ todo = [p \in Procs |-> <<>>]
    /\ indices = [p \in Procs |-> <<>>]
    /\ locked = [p \in Paths |-> FALSE]
    /\ pc = [p \in Procs |-> "idle"]
    /\ op = [p \in Procs |-> "none"]
    /\ req = [p \in Procs |-> NoRequest]
    /\ path = [p \in Procs |-> NoPath]
    /\ dir = [p \in Procs |-> NoPath]
    /\ res = [p \in Procs |-> "none"]
    /\ ret = [p \in Procs |-> NoPath]
    /\ held = [p \in Procs |-> {}]
    /\ ncalls = 0
    /\ nRetr = [p \in Paths |-> 0]
    /\ callRetr = [p \in Procs |-> 0]
    /\ maxDone = [p \in Paths |-> 0]
    /\ prior = [p \in Procs |-> 0]
    /\ before = [p \in Procs |-> {}]
    /\ failed = [p \in Procs |-> {}]
    /\ found = [p \in Procs |-> "none"]

Init ==
    /\ avail \in Scenarios
    /\ \E d \in {"absent", "full"}, m \in Manifests :
          /\ (d = "absent" => m = "none")
          /\ (avail \cap (DirRequests \cup IndexLists) = {} => d = "absent")
          /\ fs = [p \in Paths |-> IF p \in DirPaths THEN d ELSE "absent"]
          /\ mf = [p \in Paths |-> IF p \in DirPaths THEN m ELSE "none"]
    /\ Idle
    /\ pure = NoPure

-----------------------------------------------------------------------------
(* The retrieval capability, DirectRes::retrieve(client, dir).             *)

\* What a retrieval into the locked directory p can leave behind: on success
\* the whole package, with the manifest the package carries; on failure the
\* directory as it was, or a part of the package.
RetrieveOutcomes(p) ==
    {[ok |-> TRUE, fs |-> "full", mf |-> m] : m \in Manifests}
        \cup {[ok |-> FALSE, fs |-> fs[p], mf |-> mf[p]]}
        \cup {[ok |-> FALSE, fs |-> "partial", mf |-> m] : m \in {"none", "good"}}

-----------------------------------------------------------------------------
(* Calls.                                                                  *)

\* a process calls Cache::load or Cache::checkout_source
Call(p, o, r) ==
    /\ pc[p] = "idle"
    /\ ncalls < MaxCalls
    /\ ncalls' = ncalls + 1
    /\ op' = [op EXCEPT ![p] = o]
    /\ req' = [req EXCEPT ![p] = r]
    /\ pc' = [pc EXCEPT ![p] = "check"]
    /\ path' = [path EXCEPT ![p] = NoPath]
    /\ res' = [res EXCEPT ![p] = "none"]
    /\ ret' = [ret EXCEPT ![p] = NoPath]
    /\ callRetr' = [callRetr EXCEPT ![p] = 0]
    /\ prior' = [prior EXCEPT ![p] = maxDone[KeyPath(r)]]
    /\ found' = [found EXCEPT ![p] = "none"]
    /\ UNCHANGED <<fs, mf, locked, dir, held, nRetr, maxDone, avail, todo, indices, pure, before, failed>>

\* a process calls Cache::check
CheckCall(p, r) ==
    /\ pc[p] = "idle"
    /\ ncalls < MaxCalls
    /\ ncalls' = ncalls + 1
    /\ op' = [op EXCEPT ![p] = "check"]
    /\ req' = [req EXCEPT ![p] = r]
    /\ path' = [path EXCEPT ![p] = NoPath]
    /\ res' = [res EXCEPT ![p] = "Ok"]
    /\ ret' = [ret EXCEPT ![p] = Check(r.name, r.loc, r.v)]
    /\ callRetr' = [callRetr EXCEPT ![p] = 0]
    /\ prior' = [prior EXCEPT ![p] = 0]
    /\ UNCHANGED <<fs, mf, locked, pc, dir, held, nRetr, maxDone, avail, todo, indices, pure,
                   before, failed, found>>

\* the call of p, which invoked retrieve n times, returns the error e; the handle it owned, if any, has been dropped
ReturnErr(p, e, n) ==
    /\ pc' = [pc EXCEPT ![p] = "idle"]
    /\ res' = [res EXCEPT ![p] = e]
    /\ dir' = [dir EXCEPT ![p] = NoPath]
    /\ maxDone' = [maxDone EXCEPT ![path[p]] = Max(@, n)]
    /\ UNCHANGED <<ret, held>>

\* the call of p returns the handle of path[p] to its caller (as a DirLock or in a Source)
ReturnOk(p, n) ==
    /\ pc' = [pc EXCEPT ![p] = "idle"]
    /\ res' = [res EXCEPT ![p] = "Ok"]
    /\ ret' = [ret EXCEPT ![p] = path[p]]
    /\ dir' = [dir EXCEPT ![p] = NoPath]
    /\ held' = [held EXCEPT ![p] = @ \cup {path[p]}]
    /\ maxDone' = [maxDone EXCEPT ![path[p]] = Max(@, n)]

\* load has its lock: load returns it, checkout_source goes on to the manifest
LoadDone(p, n) ==
    IF op[p] = "load"
    THEN ReturnOk(p, n)
    ELSE /\ pc' = [pc EXCEPT ![p] = "open"]
         /\ dir' = [dir EXCEPT ![p] = path[p]]
         /\ maxDone' = [maxDone EXCEPT ![path[p]] = Max(@, n)]
         /\ UNCHANGED <<res, ret, held>>

\* LoadCheck that stores every locator, Dir included, under its hashed path
LoadCheckCopyDir(p) ==
    /\ pc[p] = "check"
    /\ LET c == SrcPath(req[p].name, req[p].loc, req[p].v)
       IN  /\ path' = [path EXCEPT ![p] = c]
           /\ pc' = [pc EXCEPT ![p] = IF Exists(c) THEN "acquire_cached" ELSE "acquire_absent"]
           /\ found' = [found EXCEPT ![p] = IF Exists(c) THEN "present" ELSE "absent"]
    /\ UNCHANGED <<fs, mf, locked, op, req, dir, res, ret, held, ncalls,
                   nRetr, callRetr, maxDone, prior, avail, todo, indices, pure,
                   before, failed>>

\* LoadCheck that goes on to lock and retrieve also when check returned a path
LoadCheckThenRetrieve(p) ==
    /\ pc[p] = "check"
    /\ LET c == Check(req[p].name, req[p].loc, req[p].v)
       IN  IF c # NoPath
           THEN /\ path' = [path EXCEPT ![p] = c]
                /\ pc' = [pc EXCEPT ![p] = "acquire_absent"]
                /\ found' = [found EXCEPT ![p] = "present"]
           ELSE /\ path' = [path EXCEPT ![p] = SrcPath(req[p].name, req[p].loc, req[p].v)]
                /\ pc' = [pc EXCEPT ![p] = "acquire_absent"]
                /\ found' = [found EXCEPT ![p] = "absent"]
    /\ UNCHANGED <<fs, mf, locked, op, req, dir, res, ret, held, ncalls,
                   nRetr, callRetr, maxDone, prior, avail, todo, indices, pure,
                   before, failed>>

\* Cache::load: if let Some(path) = self.check(pkg.name(), loc, v)
LoadCheck(p) ==
    /\ pc[p] = "check"
    /\ LET c == Check(req[p].name, req[p].loc, req[p].v)
       IN  IF c # NoPath
           THEN /\ path' = [path EXCEPT ![p] = c]
                /\ pc' = [pc EXCEPT ![p] = "acquire_cached"]
                /\ found' = [found EXCEPT ![p] = "present"]
           ELSE /\ path' = [path EXCEPT ![p] = SrcPath(req[p].name, req[p].loc, req[p].v)]
                /\ pc' = [pc EXCEPT ![p] = "acquire_absent"]
                /\ found' = [found EXCEPT ![p] = "absent"]
    /\ UNCHANGED <<fs, mf, locked, op, req, dir, res, ret, held, ncalls,
                   nRetr, callRetr, maxDone, prior, avail, todo, indices, pure,
                   before, failed>>

\* LoadAcquireCached that hands out a handle of the cached path without locking it
LoadAcquireCachedNoLock(p) ==
    /\ pc[p] = "acquire_cached"
    /\ Acquired(path[p])
    /\ LoadDone(p, callRetr[p])
    /\ UNCHANGED <<mf, op, req, path, ncalls, nRetr, callRetr, prior, avail, todo, indices, pure,
                   before, failed, found>>

\* Cache::load, cached branch: DirLock::acquire(&path)
LoadAcquireCached(p) ==
    /\ pc[p] = "acquire_cached"
    /\ \E io \in BOOLEAN :
          IF CanAcquire(path[p], io)
          THEN Acquired(path[p]) /\ LoadDone(p, callRetr[p])
          ELSE ReturnErr(p, "LockError", callRetr[p]) /\ UNCHANGED <<fs, locked>>
    /\ UNCHANGED <<mf, op, req, path, ncalls, nRetr, callRetr, prior, avail, todo, indices, pure,
                   before, failed, found>>

\* LoadAcquireAbsent that waits until no other handle holds the path
LoadAcquireAbsentWait(p) ==
    /\ pc[p] = "acquire_absent"
    /\ ~locked[path[p]]
    /\ Acquired(path[p])
    /\ dir' = [dir EXCEPT ![p] = path[p]]
    /\ pc' = [pc EXCEPT ![p] = "retrieve"]
    /\ UNCHANGED <<res, ret, held, maxDone>>
    /\ UNCHANGED <<mf, op, req, path, ncalls, nRetr, callRetr, prior, avail, todo, indices, pure,
                   before, failed, found>>

\* LoadAcquireAbsent that goes on to retrieve whether or not it got the lock
LoadAcquireAbsentSteal(p) ==
    /\ pc[p] = "acquire_absent"
    /\ Acquired(path[p])
    /\ dir' = [dir EXCEPT ![p] = path[p]]
    /\ pc' = [pc EXCEPT ![p] = "retrieve"]
    /\ UNCHANGED <<res, ret, held, maxDone>>
    /\ UNCHANGED <<mf, op, req, path, ncalls, nRetr, callRetr, prior, avail, todo, indices, pure,
                   before, failed, found>>

\* Cache::load, absent branch: let dir = DirLock::acquire(&p)?
LoadAcquireAbsent(p) ==
    /\ pc[p] = "acquire_absent"
    /\ \E io \in BOOLEAN :
          IF CanAcquire(path[p], io)
          THEN /\ Acquired(path[p])
               /\ dir' = [dir EXCEPT ![p] = path[p]]
               /\ pc' = [pc EXCEPT ![p] = "retrieve"]
               /\ UNCHANGED <<res, ret, held, maxDone>>
          ELSE ReturnErr(p, "LockError", callRetr[p]) /\ UNCHANGED <<fs, locked>>
    /\ UNCHANGED <<mf, op, req, path, ncalls, nRetr, callRetr, prior, avail, todo, indices, pure,
                   before, failed, found>>

\* LoadRetrieve that keeps the directory locked when retrieve fails
LoadRetrieveLeak(p) ==
    /\ pc[p] = "retrieve"
    /\ nRetr' = [nRetr EXCEPT ![path[p]] = @ + 1]
    /\ callRetr' = [callRetr EXCEPT ![p] = @ + 1]
    /\ \E o \in RetrieveOutcomes(path[p]) :
          /\ fs' = [fs EXCEPT ![path[p]] = o.fs]
          /\ mf' = [mf EXCEPT ![path[p]] = o.mf]
          /\ IF o.ok
             THEN LoadDone(p, callRetr[p] + 1)
             ELSE ReturnErr(p, "FetchError", callRetr[p] + 1)
    /\ UNCHANGED <<locked, op, req, path, ncalls, prior, avail, todo, indices, pure, before, failed, found>>

\* LoadRetrieve that tries a failed retrieval a second time
LoadRetrieveRetry(p) ==
    /\ pc[p] = "retrieve"
    /\ nRetr' = [nRetr EXCEPT ![path[p]] = @ + 1]
    /\ callRetr' = [callRetr EXCEPT ![p] = @ + 1]
    /\ \E o \in RetrieveOutcomes(path[p]) :
          /\ fs' = [fs EXCEPT ![path[p]] = o.fs]
          /\ mf' = [mf EXCEPT ![path[p]] = o.mf]
          /\ IF o.ok
             THEN LoadDone(p, callRetr[p] + 1) /\ UNCHANGED locked
             ELSE IF callRetr[p] = 0
                  THEN UNCHANGED <<pc, dir, res, ret, held, maxDone, locked>>
                  ELSE ReturnErr(p, "FetchError", callRetr[p] + 1) /\ Released(path[p])
    /\ UNCHANGED <<op, req, path, ncalls, prior, avail, todo, indices, pure, before, failed, found>>

\* Cache::load, absent branch: loc.retrieve(&self.client, &dir)?; Ok(dir)
LoadRetrieve(p) ==
    /\ pc[p] = "retrieve"
    /\ nRetr' = [nRetr EXCEPT ![path[p]] = @ + 1]
    /\ callRetr' = [callRetr EXCEPT ![p] = @ + 1]
    /\ \E o \in RetrieveOutcomes(path[p]) :
          /\ fs' = [fs EXCEPT ![path[p]] = o.fs]
          /\ mf' = [mf EXCEPT ![path[p]] = o.mf]
          /\ IF o.ok
             THEN LoadDone(p, callRetr[p] + 1) /\ UNCHANGED locked
             ELSE ReturnErr(p, "FetchError", callRetr[p] + 1) /\ Released(path[p])
    /\ UNCHANGED <<op, req, path, ncalls, prior, avail, todo, indices, pure, before, failed, found>>

\* Cache::checkout_source: fs::File::open(mf_path).context(ErrorKind::MissingManifest)?
CheckoutOpen(p) ==
    /\ pc[p] = "open"
    /\ IF mf[path[p]] = "none"
       THEN ReturnErr(p, "MissingManifest", callRetr[p]) /\ Released(path[p])
       ELSE /\ pc' = [pc EXCEPT ![p] = "parse"]
            /\ UNCHANGED <<locked, dir, res, ret, held, maxDone>>
    /\ UNCHANGED <<fs, mf, op, req, path, ncalls, nRetr, callRetr, prior, avail, todo, indices, pure,
                   before, failed, found>>

\* Cache::checkout_source: read_to_string and Manifest::from_str, each
\* .context(ErrorKind::InvalidIndex)?, then Ok(Source { path: p, .. })
CheckoutParse(p) ==
    /\ pc[p] = "parse"
    /\ \E readOk \in BOOLEAN :
          IF readOk /\ mf[path[p]] = "good"
          THEN ReturnOk(p, callRetr[p]) /\ UNCHANGED locked
          ELSE ReturnErr(p, "InvalidIndex", callRetr[p]) /\ Released(path[p])
    /\ UNCHANGED <<fs, mf, op, req, path, ncalls, nRetr, callRetr, prior, avail, todo, indices, pure,
                   before, failed, found>>

\* checkout_build that hands out its directory whether or not it is locked
CheckoutBuildNoLock(p, b) ==
    /\ pc[p] = "idle"
    /\ ncalls < MaxCalls
    /\ ncalls' = ncalls + 1
    /\ op' = [op EXCEPT ![p] = "checkout_build"]
    /\ req' = [req EXCEPT ![p] = NoRequest]
    /\ path' = [path EXCEPT ![p] = BuildPath(b)]
    /\ callRetr' = [callRetr EXCEPT ![p] = 0]
    /\ prior' = [prior EXCEPT ![p] = 0]
    /\ Acquired(BuildPath(b))
    /\ res' = [res EXCEPT ![p] = "Ok"]
    /\ ret' = [ret EXCEPT ![p] = BuildPath(b)]
    /\ held' = [held EXCEPT ![p] = @ \cup {BuildPath(b)}]
    /\ UNCHANGED <<mf, pc, dir, nRetr, maxDone, avail, todo, indices, pure, before, failed, found>>

\* Cache::checkout_build: DirLock::acquire(&path)?; Ok(Binary { build, binary_path })
CheckoutBuild(p, b) ==
    /\ pc[p] = "idle"
    /\ ncalls < MaxCalls
    /\ ncalls' = ncalls + 1
    /\ op' = [op EXCEPT ![p] = "checkout_build"]
    /\ req' = [req EXCEPT ![p] = NoRequest]
    /\ path' = [path EXCEPT ![p] = BuildPath(b)]
    /\ callRetr' = [callRetr EXCEPT ![p] = 0]
    /\ prior' = [prior EXCEPT ![p] = 0]
    /\ \E io \in BOOLEAN :
          IF CanAcquire(BuildPath(b), io)
          THEN /\ Acquired(BuildPath(b))
               /\ res' = [res EXCEPT ![p] = "Ok"]
               /\ ret' = [ret EXCEPT ![p] = BuildPath(b)]
               /\ held' = [held EXCEPT ![p] = @ \cup {BuildPath(b)}]
          ELSE /\ res' = [res EXCEPT ![p] = "LockError"]
               /\ ret' = [ret EXCEPT ![p] = NoPath]
               /\ UNCHANGED <<fs, locked, held>>
    /\ UNCHANGED <<mf, pc, dir, nRetr, maxDone, avail, todo, indices, pure, before, failed, found>>

\* Index::from_disk(index, lock) succeeds if the directory holds an index and
\* reading it does not fail
FromDiskOk(content, readOk) == content = "full" /\ readOk

\* a process calls Cache::get_indices
GetIndices(p, l) ==
    /\ pc[p] = "idle"
    /\ ncalls < MaxCalls
    /\ ncalls' = ncalls + 1
    /\ op' = [op EXCEPT ![p] = "get_indices"]
    /\ req' = [req EXCEPT ![p] = l]
    /\ before' = [before EXCEPT ![p] = {h \in Paths : Exists(h)}]
    /\ failed' = [failed EXCEPT ![p] = {}]
    /\ pc' = [pc EXCEPT ![p] = "ix_next"]
    /\ path' = [path EXCEPT ![p] = NoPath]
    /\ res' = [res EXCEPT ![p] = "none"]
    /\ ret' = [ret EXCEPT ![p] = NoPath]
    /\ callRetr' = [callRetr EXCEPT ![p] = 0]
    /\ prior' = [prior EXCEPT ![p] = 0]
    /\ todo' = [todo EXCEPT ![p] = l.reses]
    /\ indices' = [indices EXCEPT ![p] = <<>>]
    /\ UNCHANGED <<fs, mf, locked, dir, held, nRetr, maxDone, avail, pure, found>>

\* get_indices that leaves the loop at the first index it cannot lock
IndexNextBreak(p) ==
    /\ pc[p] = "ix_next"
    /\ IF todo[p] = <<>>
       THEN /\ pc' = [pc EXCEPT ![p] = "idle"]
            /\ res' = [res EXCEPT ![p] = "Ok"]
            /\ UNCHANGED <<fs, locked, dir, path, todo, failed>>
       ELSE /\ path' = [path EXCEPT ![p] = IndexPath(Head(todo[p]))]
            /\ \E io \in BOOLEAN :
                  IF CanAcquire(IndexPath(Head(todo[p])), io)
                  THEN /\ Acquired(IndexPath(Head(todo[p])))
                       /\ dir' = [dir EXCEPT ![p] = IndexPath(Head(todo[p]))]
                       /\ pc' = [pc EXCEPT ![p] = "ix_load"]
                       /\ UNCHANGED <<todo, failed>>
                  ELSE /\ todo' = [todo EXCEPT ![p] = <<>>]
                       /\ failed' = [failed EXCEPT ![p] = @ \cup {Head(todo[p])}]
                       /\ UNCHANGED <<fs, locked, dir, pc>>
            /\ UNCHANGED res
    /\ UNCHANGED <<mf, op, req, ret, held, ncalls, nRetr, callRetr, maxDone, prior,
                   avail, indices, pure, before, found>>

\* Cache::get_indices: for index in index_reses, DirLock::acquire of its
\* directory (else continue); after the loop, Indices::new(indices)
IndexNext(p) ==
    /\ pc[p] = "ix_next"
    /\ IF todo[p] = <<>>
       THEN /\ pc' = [pc EXCEPT ![p] = "idle"]
            /\ res' = [res EXCEPT ![p] = "Ok"]
            /\ UNCHANGED <<fs, locked, dir, path, todo, failed>>
       ELSE /\ path' = [path EXCEPT ![p] = IndexPath(Head(todo[p]))]
            /\ \E io \in BOOLEAN :
                  IF CanAcquire(IndexPath(Head(todo[p])), io)
                  THEN /\ Acquired(IndexPath(Head(todo[p])))
                       /\ dir' = [dir EXCEPT ![p] = IndexPath(Head(todo[p]))]
                       /\ pc' = [pc EXCEPT ![p] = "ix_load"]
                       /\ UNCHANGED <<todo, failed>>
                  ELSE /\ todo' = [todo EXCEPT ![p] = Tail(@)]
                       /\ failed' = [failed EXCEPT ![p] = @ \cup {Head(todo[p])}]
                       /\ UNCHANGED <<fs, locked, dir, pc>>
            /\ UNCHANGED res
    /\ UNCHANGED <<mf, op, req, ret, held, ncalls, nRetr, callRetr, maxDone, prior,
                   avail, indices, pure, before, found>>

\* Cache::get_indices, with the lock of the index: Index::from_disk if the
\* index is a local directory or dir.path().exists(), else index.retrieve
\* and, if that is ok, Index::from_disk; an index that loads is pushed
IndexLoad(p) ==
    /\ pc[p] = "ix_load"
    /\ LET index == Head(todo[p])
           d == dir[p]
           Push == /\ indices' = [indices EXCEPT ![p] = Append(@, index)]
                   /\ held' = [held EXCEPT ![p] = @ \cup {d}]
                   /\ UNCHANGED <<locked, failed>>
           Skip == /\ Released(d)
                   /\ failed' = [failed EXCEPT ![p] = @ \cup {index}]
                   /\ UNCHANGED <<indices, held>>
       IN  IF index.kind # "Dir" /\ ~Exists(d)
           THEN /\ nRetr' = [nRetr EXCEPT ![d] = @ + 1]
                /\ callRetr' = [callRetr EXCEPT ![p] = @ + 1]
                /\ \E o \in RetrieveOutcomes(d), readOk \in BOOLEAN :
                      /\ fs' = [fs EXCEPT ![d] = o.fs]
                      /\ mf' = [mf EXCEPT ![d] = o.mf]
                      /\ IF o.ok /\ FromDiskOk(o.fs, readOk) THEN Push ELSE Skip
           ELSE /\ UNCHANGED <<fs, mf, nRetr, callRetr>>
                /\ \E readOk \in BOOLEAN :
                      IF FromDiskOk(fs[d], readOk) THEN Push ELSE Skip
    /\ todo' = [todo EXCEPT ![p] = Tail(@)]
    /\ dir' = [dir EXCEPT ![p] = NoPath]
    /\ pc' = [pc EXCEPT ![p] = "ix_next"]
    /\ UNCHANGED <<op, req, path, res, ret, ncalls, maxDone, prior, avail, pure, before, found>>

\* the caller disposes of a handle it got from an earlier call
Drop(p, h) ==
    /\ pc[p] = "idle"
    /\ h \in held[p]
    /\ held' = [held EXCEPT ![p] = @ \ {h}]
    /\ Released(h)
    /\ UNCHANGED <<fs, mf, pc, op, req, path, dir, res, ret, ncalls,
                   nRetr, callRetr, maxDone, prior, avail, todo, indices, pure,
                   before, failed, found>>

Next ==
    \E p \in Procs :
        \/ \E o \in LoadOps, r \in avail \cap Requests : Call(p, o, r)
        \/ \E r \in avail \cap Requests : CheckCall(p, r)
        \/ \E b \in avail \cap Builds : CheckoutBuild(p, b)
        \/ \E l \in avail \cap IndexLists : GetIndices(p, l)
        \/ IndexNext(p)
        \/ IndexLoad(p)
        \/ LoadCheck(p)
        \/ LoadAcquireCached(p)
        \/ LoadAcquireAbsent(p)
        \/ LoadRetrieve(p)
        \/ CheckoutOpen(p)
        \/ CheckoutParse(p)
        \/ \E h \in Paths : Drop(p, h)

Spec == Init /\ [][Next]_vars

-----------------------------------------------------------------------------
(* Loads of one key by callers that call again after a lock error, with a  *)
(* retrieval that always succeeds.                                         *)

\* the first load of a process
FirstLoad(p, r) == op[p] = "none" /\ Call(p, "load", r)

\* the caller of a load that returned a lock error calls load again
LoadAgain(p) ==
    /\ pc[p] = "idle" /\ op[p] = "load" /\ res[p] = "LockError"
    /\ pc' = [pc EXCEPT ![p] = "check"]
    /\ path' = [path EXCEPT ![p] = NoPath]
    /\ res' = [res EXCEPT ![p] = "none"]
    /\ ret' = [ret EXCEPT ![p] = NoPath]
    /\ callRetr' = [callRetr EXCEPT ![p] = 0]
    /\ prior' = [prior EXCEPT ![p] = maxDone[KeyPath(req[p])]]
    /\ found' = [found EXCEPT ![p] = "none"]
    /\ UNCHANGED <<fs, mf, locked, op, req, dir, held, ncalls, nRetr, maxDone, avail,
                   todo, indices, pure, before, failed>>

\* loc.retrieve(&self.client, &dir) succeeds
RetrieveOk(p) == LoadRetrieve(p) /\ res'[p] = "Ok"

\* the steps of a load that is running
LoadStep(p) ==
    LoadCheck(p) \/ LoadAcquireCached(p) \/ LoadAcquireAbsent(p) \/ RetrieveOk(p)

\* the caller drops the handle its load returned
DropHeld(p) == \E h \in Paths : Drop(p, h)

LiveInit == Init /\ avail \cap NonDirRequests # {}

LiveNext ==
    \E p \in Procs :
        \/ \E r \in avail \cap NonDirRequests : FirstLoad(p, r)
        \/ LoadAgain(p)
        \/ LoadCheck(p)
        \/ LoadAcquireCached(p)
        \/ LoadAcquireAbsent(p)
        \/ RetrieveOk(p)
        \/ DropHeld(p)

\* every process that is in a load goes on, every caller that got a lock
\* error calls again, every holder releases its lock
Fairness ==
    \A p \in Procs :
        WF_vars(LoadStep(p)) /\ WF_vars(LoadAgain(p)) /\ WF_vars(DropHeld(p))

LiveSpec == LiveInit /\ [][LiveNext]_vars /\ Fairness

-----------------------------------------------------------------------------
TypeOK ==
    /\ fs \in [Paths -> {"absent", "empty", "partial", "full"}]
    /\ mf \in [Paths -> Manifests]
    /\ locked \in [Paths -> BOOLEAN]
    /\ \A p \in Procs : held[p] \subseteq Paths
    /\ ncalls \in 0..MaxCalls

-----------------------------------------------------------------------------
(* The pure functions: each is applied once to an input drawn at the start. *)

\* an input of the pure function fn, not yet evaluated
PureInput(fn, arg) == [fn |-> fn, arg |-> arg, out |-> <<>>, done |-> FALSE]

\* the pure function fn has been applied
Applied(fn) == pure.fn = fn /\ pure.done

Groups == {<<"g">>, <<"h">>}
PkgNames == {<<"a">>, <<"b">>}
Names == {Name(g, n) : g \in Groups, n \in PkgNames}

GitKinds == {"Branch", "Commit", "Tag"}
GitVals == {<<"m">>, <<"n">>}
Versions == {<<1, 0, 0>>, <<1, 1, 0>>}

\* the non-Dir locators get_src_dir is applied to
KeyLocs ==
    {[kind |-> "Tar", url |-> u, cksum |-> <<"k">>] : u \in {<<"t">>, <<"u">>}}
        \cup {[kind |-> "Git", repo |-> <<"r">>, tag |-> [kind |-> k, val |-> x]] :
                 k \in GitKinds, x \in GitVals}

Keys == [name : Names, loc : KeyLocs, v : Versions]

\* the fields of (name, loc, v) in which the keys x and y differ; the kind of
\* the git reference is a field of its own
DiffFields(x, y) ==
    {f \in {"group", "name", "loc", "kind", "v"} :
        CASE f = "group" -> x.name.group # y.name.group
          [] f = "name" -> x.name.name # y.name.name
          [] f = "kind" -> x.loc.kind = "Git" /\ y.loc.kind = "Git"
                             /\ x.loc.tag.kind # y.loc.tag.kind
          [] f = "loc" -> IF x.loc.kind = "Git" /\ y.loc.kind = "Git"
                          THEN [x.loc EXCEPT !.tag.kind = "Branch"]
                                 # [y.loc EXCEPT !.tag.kind = "Branch"]
                          ELSE x.loc # y.loc
          [] f = "v" -> x.v # y.v}

\* two keys, equal or differing in one field
GetSrcDirInputs ==
    {PureInput("get_src_dir", a) :
        a \in {b \in Keys \X Keys : Cardinality(DiffFields(b[1], b[2])) <= 1}}

\* url::Url, a parsed URL: its scheme and what follows the ":"; Url::as_str
UrlAsStr(url) == url.scheme \o <<":">> \o url.rest

\* Display for Resolution whose Index arm writes the scheme of a Dir
ResolutionToStringIndexAsDir(r) ==
    CASE r.kind = "Dir" -> <<"d", "i", "r", "+">> \o UrlAsStr(r.url)
      [] r.kind = "Index" -> <<"d", "i", "r", "+">> \o UrlAsStr(r.url)
      [] r.kind = "Tar" -> <<"t", "a", "r", "+">> \o UrlAsStr(r.url)
      [] r.kind = "Git" -> <<"p", "a", "n", "i", "c">>

\* impl Display for Resolution; the Git arm is unimplemented!()
ResolutionToString(r) ==
    CASE r.kind = "Dir" -> <<"d", "i", "r", "+">> \o UrlAsStr(r.url)
      [] r.kind = "Index" -> <<"i", "n", "d", "e", "x", "+">> \o UrlAsStr(r.url)
      [] r.kind = "Tar" -> <<"t", "a", "r", "+">> \o UrlAsStr(r.url)
      [] r.kind = "Git" -> <<"p", "a", "n", "i", "c">>

\* impl Serialize for PackageId: "<name> <version> <resolution>"
PackageIdToString(id) ==
    id.name.serialization \o <<" ">> \o VersionToString(id.version)
        \o <<" ">> \o ResolutionToString(id.resolution)

\* the text form of a Checksum: "<algorithm tag>:<hex digest>"
ChecksumToString(c) == c.fmt \o <<":">> \o c.hash

\* the bytes Build::new feeds to the hasher for the nodes of a sub-tree, in order
RECURSIVE HasherInput(_)
HasherInput(tree) ==
    IF tree = <<>> THEN <<>>
    ELSE PackageIdToString(Head(tree).id) \o VersionToString(Head(tree).id.version)
            \o ChecksumToString(Head(tree).hash) \o HasherInput(Tail(tree))

\* Build::new that hashes the id and the version of the summary only
BuildNewNoChecksum(summary, tree) ==
    [name |-> summary.id.name,
     hash |-> Sha256Hex(PackageIdToString(summary.id) \o VersionToString(summary.id.version))]

\* Build::new(summary, resolve), tree being resolve.sub_tree(&summary)
BuildNew(summary, tree) ==
    [name |-> summary.id.name, hash |-> Sha256Hex(HasherInput(tree))]

\* the longest sub-tree Build::new is applied to
MaxTree == 2

UrlA == [scheme |-> <<"f">>, rest |-> <<"x">>]

PackageIds ==
    {[name |-> NameA, version |-> <<1, 0, 0>>, resolution |-> [kind |-> "Index", url |-> UrlA]],
     [name |-> Name(<<"g">>, <<"b">>), version |-> <<1, 1, 0>>,
      resolution |-> [kind |-> "Tar", url |-> UrlA]]}

Checksums == {[fmt |-> <<"s", "h", "a", "5", "1", "2">>, hash |-> h] :
                 h \in {<<"x">>, <<"y">>, <<"x", "y">>}}

\* the resolved nodes of a sub-tree
Nodes == [id : PackageIds, hash : Checksums]

SubTrees == UNION {[1..n -> Nodes] : n \in 1..MaxTree}

\* the sub-tree with the checksum of its node i replaced by c
WithChecksum(tree, i, c) == [tree EXCEPT ![i].hash = c]

\* a sub-tree, one of its nodes and a checksum for that node
BuildNewInputs ==
    {PureInput("Build::new", a) :
        a \in {b \in SubTrees \X (1..MaxTree) \X Checksums : b[2] <= Len(b[1])}}

\* Build::new and dir_name of the sub-tree and of the sub-tree with the other checksum
ApplyBuildNew ==
    /\ pure.fn = "Build::new" /\ ~pure.done
    /\ LET tree == pure.arg[1]
           other == WithChecksum(tree, pure.arg[2], pure.arg[3])
           b1 == BuildNew(tree[1], tree)
           b2 == BuildNew(other[1], other)
       IN  pure' = [pure EXCEPT !.done = TRUE, !.out = <<b1, DirName(b1), b2, DirName(b2)>>]
    /\ UNCHANGED <<fs, mf, locked, pc, op, req, path, dir, res, ret, held, ncalls,
                   nRetr, callRetr, maxDone, avail, prior, todo, indices,
                   before, failed, found>>

\* get_src_dir of both keys
ApplyGetSrcDir ==
    /\ pure.fn = "get_src_dir" /\ ~pure.done
    /\ pure' = [pure EXCEPT !.done = TRUE,
                            !.out = <<GetSrcDir(pure.arg[1].name, pure.arg[1].loc, pure.arg[1].v),
                                      GetSrcDir(pure.arg[2].name, pure.arg[2].loc, pure.arg[2].v)>>]
    /\ UNCHANGED <<fs, mf, locked, pc, op, req, path, dir, res, ret, held, ncalls,
                   nRetr, callRetr, maxDone, avail, prior, todo, indices,
                   before, failed, found>>

\* Result: Ok(val) and Err(kind)
Ok(val) == [ok |-> TRUE, val |-> val]
Err(kind) == [ok |-> FALSE, err |-> kind]

\* str::find: the position of the first c in s, 0 if there is none
RECURSIVE Find(_, _)
Find(s, c) ==
    IF s = <<>> THEN 0
    ELSE IF Head(s) = c THEN 1
    ELSE LET i == Find(Tail(s), c) IN IF i = 0 THEN 0 ELSE i + 1

\* the number of occurrences of c in s
RECURSIVE Count(_, _)
Count(s, c) ==
    IF s = <<>> THEN 0 ELSE (IF Head(s) = c THEN 1 ELSE 0) + Count(Tail(s), c)

\* str::splitn(n, c): at most n parts, the last one holding the rest of s
RECURSIVE SplitN(_, _, _)
SplitN(n, s, c) ==
    LET i == Find(s, c)
    IN  IF n <= 1 \/ i = 0 THEN <<s>>
        ELSE <<SubSeq(s, 1, i - 1)>> \o SplitN(n - 1, SubSeq(s, i + 1, Len(s)), c)

\* str::split(c): the parts of s between the occurrences of c
Split(s, c) == SplitN(Len(s) + 1, s, c)

\* the longest string a parser is applied to (of a url: the longest url)
MaxLen == 3

\* the strings over an alphabet, up to MaxLen characters
Strings(alphabet) == UNION {[1..n -> alphabet] : n \in 0..MaxLen}

\* Name::from_str that cuts the string at its first '/' only
NameFromStrSplitN(s) ==
    LET v == SplitN(2, s, "/")
    IN  IF Len(v) # 2 THEN Err("InvalidPackageId") ELSE Ok(Name(v[1], v[2]))

\* impl FromStr for Name
NameFromStr(s) ==
    LET v == Split(s, "/")
    IN  IF Len(v) # 2 THEN Err("InvalidPackageId") ELSE Ok(Name(v[1], v[2]))

NameStrings == Strings({"g", "a", "/"})

NameFromStrInputs == {PureInput("Name::from_str", a) : a \in NameStrings}

\* Name::from_str of the string
ApplyNameFromStr ==
    /\ pure.fn = "Name::from_str" /\ ~pure.done
    /\ pure' = [pure EXCEPT !.done = TRUE, !.out = NameFromStr(pure.arg)]
    /\ UNCHANGED <<fs, mf, locked, pc, op, req, path, dir, res, ret, held, ncalls,
                   nRetr, callRetr, maxDone, avail, prior, todo, indices, before, failed,
                   found>>

\* the ASCII letters of the model, and char::to_ascii_lowercase
AlphaChars == {"f", "F"}
ToAsciiLowercase(s) == [i \in 1..Len(s) |-> IF s[i] = "F" THEN "f" ELSE s[i]]

\* Url::parse: a URL is a scheme, which begins with a letter and consists of
\* letters and '+', then ':' and the rest; the scheme is stored in lower case
UrlParse(s) ==
    LET i == Find(s, ":")
    IN  IF i > 1 /\ s[1] \in AlphaChars
             /\ \A k \in 1..(i - 1) : s[k] \in AlphaChars \cup {"+"}
        THEN Ok([scheme |-> ToAsciiLowercase(SubSeq(s, 1, i - 1)),
                 rest |-> SubSeq(s, i + 1, Len(s))])
        ELSE Err("RelativeUrlWithoutBase")

\* impl FromStr for Resolution
ResolutionFromStr(s) ==
    LET parts == SplitN(2, s, "+")
    IN  IF Len(parts) < 2 THEN Err("InvalidSourceUrl")
        ELSE LET utype == parts[1]
                 url == UrlParse(parts[2])
                 Parsed(kind) == IF url.ok THEN Ok([kind |-> kind, url |-> url.val])
                                 ELSE Err("InvalidSourceUrl")
             IN  CASE utype = <<"g", "i", "t">> -> Err("panic")
                   [] utype = <<"d", "i", "r">> -> Parsed("Dir")
                   [] utype = <<"t", "a", "r">> -> Parsed("Tar")
                   [] utype = <<"i", "n", "d", "e", "x">> -> Parsed("Index")
                   [] OTHER -> Err("InvalidSourceUrl")

\* the schemes Resolution::from_str knows
KnownSchemes == {<<"g", "i", "t">>, <<"d", "i", "r">>, <<"t", "a", "r">>,
                 <<"i", "n", "d", "e", "x">>}

UrlStrings == Strings({"f", "F", ":", "+"})

\* the parsed URLs
Urls == {UrlParse(s).val : s \in {t \in UrlStrings : UrlParse(t).ok}}

Resolutions == [kind : {"Dir", "Tar", "Index"}, url : Urls]

\* a scheme, known or not, or none, with or without a '+', and what follows
ResolutionStrings ==
    {scheme \o plus \o url :
        scheme \in KnownSchemes \cup {<<"z", "i", "p">>, <<>>},
        plus \in {<<>>, <<"+">>},
        url \in UrlStrings}

ResolutionFromStrInputs ==
    {PureInput("Resolution::from_str", a) : a \in ResolutionStrings}

ResolutionToStringInputs ==
    {PureInput("Resolution::to_string", a) : a \in Resolutions}

\* Resolution::from_str of the string
ApplyResolutionFromStr ==
    /\ pure.fn = "Resolution::from_str" /\ ~pure.done
    /\ pure' = [pure EXCEPT !.done = TRUE, !.out = ResolutionFromStr(pure.arg)]
    /\ UNCHANGED <<fs, mf, locked, pc, op, req, path, dir, res, ret, held, ncalls,
                   nRetr, callRetr, maxDone, avail, prior, todo, indices, before, failed,
                   found>>

\* Resolution::from_str of the Resolution's to_string()
ApplyResolutionToString ==
    /\ pure.fn = "Resolution::to_string" /\ ~pure.done
    /\ pure' = [pure EXCEPT !.done = TRUE,
                            !.out = ResolutionFromStr(ResolutionToString(pure.arg))]
    /\ UNCHANGED <<fs, mf, locked, pc, op, req, path, dir, res, ret, held, ncalls,
                   nRetr, callRetr, maxDone, avail, prior, todo, indices, before, failed,
                   found>>

\* a numeric identifier of a semver version: digits, no leading zero
RECURSIVE ParseNat(_)
ParseNat(s) ==
    LET DigitOf(c) == (CHOOSE d \in 1..10 : DigitChar[d] = c) - 1
        IsDigit(c) == \E d \in 1..10 : DigitChar[d] = c
    IN  IF s = <<>> \/ ~IsDigit(s[Len(s)]) \/ (Len(s) > 1 /\ s[1] = "0") THEN Err("ParseError")
        ELSE IF Len(s) = 1 THEN Ok(DigitOf(s[1]))
        ELSE LET front == ParseNat(SubSeq(s, 1, Len(s) - 1))
             IN  IF front.ok THEN Ok(front.val * 10 + DigitOf(s[Len(s)])) ELSE front

\* Version::parse: "major.minor.patch"
VersionParse(s) ==
    LET v == Split(s, ".")
    IN  IF Len(v) = 3 /\ \A i \in 1..3 : ParseNat(v[i]).ok
        THEN Ok(<<ParseNat(v[1]).val, ParseNat(v[2]).val, ParseNat(v[3]).val>>)
        ELSE Err("ParseError")

\* PackageId::from_str that cuts the string into two parts only
PackageIdFromStrSplit2(s) ==
    LET parts == SplitN(2, s, " ")
    IN  IF Len(parts) < 3 THEN Err("InvalidPackageId")
        ELSE LET name == NameFromStr(parts[1])
                 version == VersionParse(parts[2])
                 resolution == ResolutionFromStr(parts[3])
             IN  IF ~name.ok THEN name
                 ELSE IF ~version.ok THEN Err("InvalidPackageId")
                 ELSE IF ~resolution.ok THEN resolution
                 ELSE Ok([name |-> name.val, version |-> version.val,
                          resolution |-> resolution.val])

\* impl FromStr for PackageId
PackageIdFromStr(s) ==
    LET parts == SplitN(3, s, " ")
    IN  IF Len(parts) < 3 THEN Err("InvalidPackageId")
        ELSE LET name == NameFromStr(parts[1])
                 version == VersionParse(parts[2])
                 resolution == ResolutionFromStr(parts[3])
             IN  IF ~name.ok THEN name
                 ELSE IF ~version.ok THEN Err("InvalidPackageId")
                 ELSE IF ~resolution.ok THEN resolution
                 ELSE Ok([name |-> name.val, version |-> version.val,
                          resolution |-> resolution.val])

\* the fields, separated by single spaces
RECURSIVE JoinFields(_)
JoinFields(fields) ==
    IF Len(fields) = 1 THEN fields[1]
    ELSE fields[1] \o <<" ">> \o JoinFields(Tail(fields))

NameFields == {<<"g", "/", "a">>, <<"g", "a">>}
VersionFields == {VersionToString(<<1, 0, 0>>), VersionToString(<<10, 2, 3>>),
                  <<"1", ".", "0">>, <<"x">>}

\* one, two or three fields of a package id
PackageIdFields ==
    {<<n>> : n \in NameFields}
        \cup (NameFields \X VersionFields)
        \cup (NameFields \X VersionFields \X ResolutionStrings)

PackageIdFromStrInputs == {PureInput("PackageId::from_str", a) : a \in PackageIdFields}

\* PackageId::from_str of the fields joined by spaces and, if it parses,
\* the serialization of the PackageId
ApplyPackageIdFromStr ==
    /\ pure.fn = "PackageId::from_str" /\ ~pure.done
    /\ LET id == PackageIdFromStr(JoinFields(pure.arg))
       IN  pure' = [pure EXCEPT !.done = TRUE,
                                !.out = <<id, IF id.ok THEN PackageIdToString(id.val) ELSE <<>> >>]
    /\ UNCHANGED <<fs, mf, locked, pc, op, req, path, dir, res, ret, held, ncalls,
                   nRetr, callRetr, maxDone, avail, prior, todo, indices, before, failed,
                   found>>

\* a name, a locator of any kind and two version arguments, None included
GetSrcDirVersionInputs ==
    {PureInput("get_src_dir (versions)", a) :
        a \in Names \X (KeyLocs \cup {DirLoc, DirIndexLoc})
                \X (Versions \cup {NoVersion}) \X (Versions \cup {NoVersion})}

\* get_src_dir of the name and the locator with either version
ApplyGetSrcDirVersions ==
    /\ pure.fn = "get_src_dir (versions)" /\ ~pure.done
    /\ pure' = [pure EXCEPT !.done = TRUE,
                            !.out = <<GetSrcDir(pure.arg[1], pure.arg[2], pure.arg[3]),
                                      GetSrcDir(pure.arg[1], pure.arg[2], pure.arg[4])>>]
    /\ UNCHANGED <<fs, mf, locked, pc, op, req, path, dir, res, ret, held, ncalls,
                   nRetr, callRetr, maxDone, avail, prior, todo, indices, before, failed,
                   found>>

\* Constraint::any()
ConstraintAny == <<"any">>

Constraints == {ConstraintAny, <<"^", "1">>}

\* impl From<IndexRes> for Resolution
IndexResInto(index) == [kind |-> "Index", res |-> index]

\* impl From<DirectRes> for Resolution
DirectResInto(direct) == [kind |-> "Direct", res |-> direct]

\* PackageId::new(name, resolution), as DepReq::into_dep calls it
PackageIdNew(name, resolution) == [name |-> name, resolution |-> resolution]

\* into_dep that sends a pinned registry to the default index
IntoDepDefaultIndex(self, def_index, n) ==
    CASE self.kind = "Registry" ->
            [pid |-> PackageIdNew(n, IndexResInto(def_index)), c |-> self.con]
      [] self.kind = "RegLong" ->
            [pid |-> PackageIdNew(n, IndexResInto(def_index)), c |-> self.con]
      [] self.kind = "Local" ->
            [pid |-> PackageIdNew(n, DirectResInto([kind |-> "Dir", url |-> self.path])),
             c |-> ConstraintAny]
      [] self.kind = "Git" ->
            [pid |-> PackageIdNew(n, DirectResInto([kind |-> "Git", repo |-> self.git,
                                                    tag |-> self.spec])),
             c |-> ConstraintAny]

\* DepReq::into_dep
IntoDep(self, def_index, n) ==
    CASE self.kind = "Registry" ->
            [pid |-> PackageIdNew(n, IndexResInto(def_index)), c |-> self.con]
      [] self.kind = "RegLong" ->
            [pid |-> PackageIdNew(n, IndexResInto(self.registry)), c |-> self.con]
      [] self.kind = "Local" ->
            [pid |-> PackageIdNew(n, DirectResInto([kind |-> "Dir", url |-> self.path])),
             c |-> ConstraintAny]
      [] self.kind = "Git" ->
            [pid |-> PackageIdNew(n, DirectResInto([kind |-> "Git", repo |-> self.git,
                                                    tag |-> self.spec])),
             c |-> ConstraintAny]

\* IndexMap::insert: the value of a key already present is replaced where it
\* stands, a new key goes to the end
IndexMapInsert(map, k, v) ==
    IF \E i \in 1..Len(map) : map[i].key = k
    THEN [i \in 1..Len(map) |-> IF map[i].key = k THEN [key |-> k, val |-> v] ELSE map[i]]
    ELSE Append(map, [key |-> k, val |-> v])

\* Cache::checkout_source: the loop over manifest.dependencies, the first
\* count entries done
RECURSIVE MetaDeps(_, _, _)
MetaDeps(dependencies, def_index, count) ==
    IF count = 0 THEN <<>>
    ELSE LET dep == IntoDep(dependencies[count].val, def_index, dependencies[count].key)
         IN  IndexMapInsert(MetaDeps(dependencies, def_index, count - 1), dep.pid, dep.c)

\* Cache::checkout_source: the CacheMeta of a parsed manifest
CacheMeta(manifest, def_index) ==
    [deps |-> MetaDeps(manifest.dependencies, def_index, Len(manifest.dependencies)),
     version |-> manifest.version]

\* the dependency requirements of a manifest
DepReqs ==
    {[kind |-> "Registry", con |-> c] : c \in Constraints}
        \cup {[kind |-> "RegLong", con |-> <<"^", "1">>, registry |-> [res |-> DirIndexLoc]]}
        \cup {[kind |-> "Local", path |-> DirLoc.url]}
        \cup {[kind |-> "Git", git |-> GitTagLoc.repo, spec |-> GitTagLoc.tag]}

DepNames == {NameA, Name(<<"g">>, <<"b">>)}

\* the tables of at most two dependencies under different names
DepTables ==
    {<<>>}
        \cup {<<[key |-> n, val |-> d]>> : n \in DepNames, d \in DepReqs}
        \cup {<<[key |-> a[1], val |-> a[3]], [key |-> a[2], val |-> a[4]]>> :
                 a \in {b \in DepNames \X DepNames \X DepReqs \X DepReqs : b[1] # b[2]}}

\* the parsed manifests, and the cache's default index
CheckoutSourceInputs ==
    {PureInput("checkout_source (meta)",
               <<[version |-> v, dependencies |-> t, dev_dependencies |-> dev], [res |-> i]>>) :
        v \in Versions, t \in DepTables,
        dev \in {<<>>} \cup {<<[key |-> n, val |-> [kind |-> "Local", path |-> DirLoc.url]]>> :
                                n \in DepNames},
        i \in {GitLoc, DirIndexLoc}}

\* Cache::checkout_source, from the parsed manifest on
ApplyCheckoutSource ==
    /\ pure.fn = "checkout_source (meta)" /\ ~pure.done
    /\ pure' = [pure EXCEPT !.done = TRUE, !.out = CacheMeta(pure.arg[1], pure.arg[2])]
    /\ UNCHANGED <<fs, mf, locked, pc, op, req, path, dir, res, ret, held, ncalls,
                   nRetr, callRetr, maxDone, avail, prior, todo, indices, before, failed,
                   found>>

\* impl FromStr for PkgGitSpecifier
PkgGitSpecifierFromStr(s) ==
    LET v == SplitN(2, s, "=")
    IN  IF Len(v) < 2 THEN Err("InvalidSourceUrl")
        ELSE CASE v[1] = <<"b", "r", "a", "n", "c", "h">> -> Ok([kind |-> "Branch", val |-> v[2]])
               [] v[1] = <<"c", "o", "m", "m", "i", "t">> -> Ok([kind |-> "Commit", val |-> v[2]])
               [] v[1] = <<"t", "a", "g">> -> Ok([kind |-> "Tag", val |-> v[2]])
               [] OTHER -> Err("InvalidSourceUrl")

\* the git specifiers: a variant and its string, which may hold an '='
PkgGitSpecifiers == [kind : GitKinds, val : Strings({"m", "="})]

PkgGitSpecifierInputs == {PureInput("PkgGitSpecifier::to_string", s) : s \in PkgGitSpecifiers}

\* s.to_string(), and PkgGitSpecifier::from_str of it
ApplyPkgGitSpecifierToString ==
    /\ pure.fn = "PkgGitSpecifier::to_string" /\ ~pure.done
    /\ pure' = [pure EXCEPT !.done = TRUE,
                            !.out = [text |-> PkgGitSpecifierToString(pure.arg),
                                     parsed |-> PkgGitSpecifierFromStr(
                                                    PkgGitSpecifierToString(pure.arg))]]
    /\ UNCHANGED <<fs, mf, locked, pc, op, req, path, dir, res, ret, held, ncalls,
                   nRetr, callRetr, maxDone, avail, prior, todo, indices, before, failed,
                   found>>

PureInputs ==
    GetSrcDirInputs \cup BuildNewInputs \cup NameFromStrInputs
        \cup ResolutionFromStrInputs \cup ResolutionToStringInputs
        \cup PackageIdFromStrInputs \cup GetSrcDirVersionInputs
        \cup CheckoutSourceInputs \cup PkgGitSpecifierInputs

PureInit ==
    /\ avail = {}
    /\ fs = [p \in Paths |-> "absent"]
    /\ mf = [p \in Paths |-> "none"]
    /\ Idle
    /\ pure \in PureInputs

PureNext ==
    \/ ApplyGetSrcDir
    \/ ApplyBuildNew
    \/ ApplyNameFromStr
    \/ ApplyResolutionFromStr
    \/ ApplyResolutionToString
    \/ ApplyPackageIdFromStr
    \/ ApplyGetSrcDirVersions
    \/ ApplyCheckoutSource
    \/ ApplyPkgGitSpecifierToString

PureSpec == PureInit /\ [][PureNext]_vars

-----------------------------------------------------------------------------
(* Properties.                                                             *)

\* process q owns a lock handle of path h
Owns(q, h) == dir[q] = h \/ h \in held[q]

\* the number of lock handles of path h that exist
Holders(h) == Cardinality({q \in Procs : dir[q] = h}) + Cardinality({q \in Procs : h \in held[q]})

\* process p has returned from a call of operation o
Returned(p, o) == op[p] = o /\ pc[p] = "idle"

\* C1: over all loads of a non-Dir key, whatever their interleaving, retrieve
\* is invoked at most once for that key.
C1_SingleRetrieval ==
    \A r \in NonDirRequests : nRetr[KeyPath(r)] <= 1

\* C2: in every state, check reports a non-Dir key as present only if the
\* directory of that key is completely populated.
C2_CheckSeesOnlyPopulated ==
    \A r \in NonDirRequests :
        Check(r.name, r.loc, r.v) # NoPath => fs[Check(r.name, r.loc, r.v)] = "full"

\* C3: no path has two lock handles at once, whichever operations took them,
\* and a path that has a handle is locked.
C3_OneHolder ==
    \A h \in Paths : Holders(h) <= 1 /\ (Holders(h) = 1 => locked[h])

\* a handle is held while another process was refused the lock of the same path
C3_Witness ==
    \E p \in Procs, q \in Procs :
        /\ p # q
        /\ path[q] \in held[p]
        /\ pc[q] = "idle" /\ res[q] = "LockError"

\* C4: when load of a non-Dir key has returned successfully, the directory
\* whose lock the caller holds is populated with the package.
C4_LoadReturnsPopulated ==
    \A p \in Procs :
        (Returned(p, "load") /\ res[p] = "Ok" /\ req[p] \in NonDirRequests /\ ret[p] \in held[p])
            => fs[ret[p]] = "full"

\* C5: a load that begins after a load of the same key has returned invokes
\* retrieve only if that earlier load did not: over the two calls retrieve is
\* invoked at most once.
C5_SequentialLoadsRetrieveOnce ==
    \A p \in Procs : op[p] \in LoadOps => prior[p] + callRetr[p] <= 1

\* a load has returned the directory that an earlier, finished load retrieved
C5_Witness ==
    \E p \in Procs :
        /\ Returned(p, "load") /\ res[p] = "Ok"
        /\ req[p] \in NonDirRequests
        /\ prior[p] = 1 /\ callRetr[p] = 0
        /\ fs[ret[p]] = "full"

\* C6: once load or checkout_source has returned an error after taking the
\* lock (retrieve failed, manifest missing or unreadable), the call owns no
\* handle and the path is unlocked unless another holder has taken it since.
C6_ReleasedOnError ==
    \A p \in Procs :
        (pc[p] = "idle" /\ res[p] \in {"FetchError", "MissingManifest", "InvalidIndex"})
            => /\ dir[p] = NoPath
               /\ path[p] \notin held[p]
               /\ (locked[path[p]] => \E q \in Procs \ {p} : Owns(q, path[p]))

\* one call has failed in retrieve and another on the manifest, and both paths are unlocked
C6_Witness ==
    \E p \in Procs, q \in Procs :
        /\ pc[p] = "idle" /\ res[p] = "FetchError" /\ ~locked[path[p]]
        /\ pc[q] = "idle" /\ res[q] \in {"MissingManifest", "InvalidIndex"} /\ ~locked[path[q]]

\* C7: a load that reaches DirLock::acquire while the path is locked returns
\* a lock error in that step, without a retrieval and without a change to
\* the lock or to any handle.
C7_ContendedLoadFails ==
    [][\A p \in Procs :
          (pc[p] \in {"acquire_cached", "acquire_absent"} /\ locked[path[p]] /\ pc'[p] # pc[p])
              => /\ pc'[p] = "idle" /\ res'[p] = "LockError"
                 /\ callRetr'[p] = 0
                 /\ nRetr' = nRetr /\ fs' = fs
                 /\ locked' = locked /\ held' = held
                 /\ \A q \in Procs \ {p} : dir'[q] = dir[q]]_vars

\* a load of an absent key was refused the lock that another process still holds
C7_Witness ==
    \E p \in Procs, q \in Procs :
        /\ p # q
        /\ Returned(p, "load") /\ res[p] = "LockError" /\ callRetr[p] = 0
        /\ req[p] \in NonDirRequests
        /\ Owns(q, path[p]) /\ locked[path[p]]

\* C8: one call invokes retrieve at most once, and a call that returned a
\* fetch error invoked it exactly once.
C8_NoRetry ==
    \A p \in Procs :
        /\ callRetr[p] <= 1
        /\ (res[p] = "FetchError" => pc[p] = "idle" /\ callRetr[p] = 1)

\* a load has returned the error of its only retrieval
C8_Witness ==
    \E p \in Procs : Returned(p, "load") /\ res[p] = "FetchError" /\ callRetr[p] = 1

\* C9: for a Dir locator check returns the literal path of the locator in
\* every state of the filesystem, and a check call of a process returned it.
C9_DirCheckLiteral ==
    /\ \A r \in DirRequests : Check(r.name, r.loc, r.v) = r.loc.url
    /\ \A p \in Procs : (op[p] = "check" /\ req[p] \in DirRequests) => ret[p] = req[p].loc.url

\* check returned the path of a Dir locator whose directory does not exist,
\* while another directory does
C9_Witness ==
    \E p \in Procs :
        /\ op[p] = "check" /\ req[p] \in DirRequests
        /\ ret[p] = req[p].loc.url
        /\ fs[req[p].loc.url] = "absent"
        /\ \E s \in Paths : fs[s] # "absent"

C11_SingleFieldChangesPath ==
    Applied("get_src_dir") =>
        /\ (pure.arg[1] = pure.arg[2] => pure.out[1] = pure.out[2])
        /\ (Cardinality(DiffFields(pure.arg[1], pure.arg[2])) = 1 => pure.out[1] # pure.out[2])

\* C12: two sub-trees with the same nodes in the same order, the same
\* PackageIds and Versions, and a different content checksum at exactly one
\* node give Builds with different hashes and different dir_name() values.
C12_ChecksumChangesBuild ==
    Applied("Build::new") /\ pure.arg[1][pure.arg[2]].hash # pure.arg[3] =>
        /\ pure.out[1].hash # pure.out[3].hash
        /\ pure.out[2] # pure.out[4]

\* Build::new has hashed two sub-trees of two nodes that differ in the
\* checksum of the second node only
C12_Witness ==
    /\ Applied("Build::new")
    /\ Len(pure.arg[1]) = 2 /\ pure.arg[2] = 2
    /\ pure.arg[1][2].hash # pure.arg[3]
    /\ pure.out[1].name = pure.out[3].name

\* C13: when get_indices holds the lock of a non-Dir index whose directory
\* root/indices/<sha256> did not exist before the call, its next step invokes
\* retrieve on that directory (once); retrieve is skipped only when the
\* directory existed before the call.
C13_AbsentIndexRetrieved ==
    [][\A p \in Procs :
          (/\ pc[p] = "ix_load" /\ pc'[p] = "ix_next"
           /\ Head(todo[p]).kind # "Dir"
           /\ dir[p] \notin before[p])
              => (nRetr'[dir[p]] = nRetr[dir[p]] + 1 /\ callRetr'[p] = callRetr[p] + 1)]_vars

\* C14: get_indices always returns an index set; it holds, in input order,
\* exactly the locators whose lock, retrieval and load did not fail, so the
\* failure of one index omits that index and no other.
C14_IndicesOfSucceeded ==
    \A p \in Procs :
        /\ (op[p] = "get_indices" => res[p] \in {"none", "Ok"})
        /\ (Returned(p, "get_indices") =>
               /\ res[p] = "Ok"
               /\ indices[p] = SelectSeq(req[p].reses, LAMBDA l : l \notin failed[p]))

\* get_indices has returned: the first index could not be locked or loaded
\* and is omitted, the second is present
C14_Witness ==
    \E p \in Procs :
        /\ Returned(p, "get_indices")
        /\ req[p].reses[1] \in failed[p]
        /\ indices[p] = <<req[p].reses[2]>>

\* C15: a checkout_source call that has loaded the directory fails with
\* MissingManifest when the directory holds no manifest file, and with
\* InvalidManifest when the manifest it holds does not parse.
C15_ManifestErrors ==
    [][\A p \in Procs :
          (op[p] = "checkout_source" /\ pc[p] \in {"open", "parse"} /\ pc'[p] # pc[p])
              => /\ (mf[path[p]] = "none" => res'[p] = "MissingManifest")
                 /\ (mf[path[p]] = "bad" /\ pc[p] = "parse" => res'[p] = "InvalidManifest")]_vars

\* the subtree of the cache root in which operation o takes its locks
OpTree(o) ==
    CASE o \in LoadOps -> <<"s", "r", "c">>
      [] o = "checkout_build" -> <<"b", "u", "i", "l", "d">>
      [] o = "get_indices" -> <<"i", "n", "d", "i", "c", "e", "s">>
      [] OTHER -> <<>>

\* path h is location/<tree>/<entry>
InTree(h, tree) ==
    /\ Len(h) = Len(Location) + 2
    /\ SubSeq(h, 1, Len(Location)) = Location
    /\ h[Len(Location) + 1] = tree

\* processes p and q computed the paths they lock in operations of different subtrees
OtherTree(p, q) ==
    /\ OpTree(op[p]) # <<>> /\ OpTree(op[q]) # <<>> /\ OpTree(op[p]) # OpTree(op[q])
    /\ path[p] # NoPath /\ path[q] # NoPath

\* C16: load/checkout_source, checkout_build and get_indices lock pairwise
\* disjoint sets of paths: operations of different subtrees never compute the
\* same path to lock.
C16_DisjointLockSets ==
    \A p \in Procs, q \in Procs : OtherTree(p, q) => path[p] # path[q]

\* C16, amended: but for the literal path of a Dir locator, every path an
\* operation locks lies in the subtree of that operation, so operations of
\* different subtrees compute the same path only for a Dir locator.
C16_SubtreesDisjoint ==
    \A p \in Procs :
        /\ (OpTree(op[p]) # <<>> /\ path[p] # NoPath /\ path[p] \notin DirPaths)
              => InTree(path[p], OpTree(op[p]))
        /\ \A q \in Procs : (OtherTree(p, q) /\ path[p] = path[q]) => path[p] \in DirPaths

\* a process holds the lock of a source directory while another was given
\* the lock of a build directory
C16_Witness ==
    \E p \in Procs, q \in Procs :
        /\ op[p] \in LoadOps /\ op[q] = "checkout_build"
        /\ path[p] \in held[p] /\ InTree(path[p], OpTree(op[p]))
        /\ path[q] \in held[q] /\ res[q] = "Ok"

\* process q runs or ran a load of a non-Dir key other than the one p loads
OtherKey(p, q) ==
    /\ p # q /\ op[p] \in LoadOps /\ op[q] \in LoadOps
    /\ req[p] \in NonDirRequests /\ req[q] \in NonDirRequests /\ req[p] # req[q]

\* C17: concurrent loads of different non-Dir keys do not interfere: no load
\* fails with a lock error while a load of a different key owns the lock of
\* its path, and no load returns the directory that a load of a different
\* key returned.
C17_KeysIndependent ==
    [][\A p \in Procs, q \in Procs :
          (OtherKey(p, q) /\ pc[p] # "idle" /\ pc'[p] = "idle")
              => /\ ~(res'[p] = "LockError" /\ Owns(q, path[p]))
                 /\ ~(res'[p] = "Ok" /\ pc[q] = "idle" /\ res[q] = "Ok"
                        /\ ret'[p] = ret[q])]_vars

\* C18: for every Resolution r of variant Dir, Tar or Index,
\* Resolution::from_str(r.to_string()) = r; a string without '+', or with an
\* unknown scheme before the first '+', fails with InvalidSourceUrl.
C18_ResolutionRoundTrip ==
    /\ Applied("Resolution::to_string") => pure.out = Ok(pure.arg)
    /\ (/\ Applied("Resolution::from_str")
        /\ \/ Count(pure.arg, "+") = 0
           \/ SubSeq(pure.arg, 1, Find(pure.arg, "+") - 1) \notin KnownSchemes)
           => pure.out = Err("InvalidSourceUrl")

\* an Index resolution whose url has a '+' after the scheme has been written
\* and parsed back
C18_Witness ==
    /\ Applied("Resolution::to_string")
    /\ pure.arg.kind = "Index" /\ Count(pure.arg.url.rest, "+") > 0
    /\ pure.out.ok

\* C19: Name::from_str(s) succeeds exactly when s contains exactly one '/';
\* the Name then has the text before the '/' as group, the text after it as
\* name, and s as as_str(); every other string fails with InvalidPackageId;
\* so Name::from_str(n.as_str()) = n for a Name n with no '/' in group and name.
C19_NameFromStr ==
    Applied("Name::from_str") =>
        LET s == pure.arg
            i == Find(s, "/")
        IN  /\ pure.out.ok <=> Count(s, "/") = 1
            /\ pure.out.ok =>
                  /\ pure.out.val.group = SubSeq(s, 1, i - 1)
                  /\ pure.out.val.name = SubSeq(s, i + 1, Len(s))
                  /\ pure.out.val.serialization = s
            /\ ~pure.out.ok => pure.out.err = "InvalidPackageId"
            /\ \A g \in NameStrings, n \in NameStrings :
                  (Count(g, "/") = 0 /\ Count(n, "/") = 0 /\ Name(g, n).serialization = s)
                      => pure.out = Ok(Name(g, n))

\* Name::from_str has parsed a string with one '/' into a group and a name
\* that are not empty
C19_Witness ==
    /\ Applied("Name::from_str")
    /\ pure.out.ok
    /\ pure.out.val.group # <<>> /\ pure.out.val.name # <<>>

\* the fields are "<group>/<name>", "<version>" and "<scheme>+<url>" with the
\* scheme dir, tar or index
WellFormed(fields) ==
    /\ Len(fields) = 3
    /\ Count(fields[1], "/") = 1
    /\ VersionParse(fields[2]).ok
    /\ Find(fields[3], "+") > 0
    /\ SubSeq(fields[3], 1, Find(fields[3], "+") - 1) \in KnownSchemes \ {<<"g", "i", "t">>}
    /\ UrlParse(SubSeq(fields[3], Find(fields[3], "+") + 1, Len(fields[3]))).ok

\* the url of the third field, as written
UrlText(fields) == SubSeq(fields[3], Find(fields[3], "+") + 1, Len(fields[3]))

\* the PackageId the fields spell
Spelled(fields) ==
    [name |-> Name(SubSeq(fields[1], 1, Find(fields[1], "/") - 1),
                   SubSeq(fields[1], Find(fields[1], "/") + 1, Len(fields[1]))),
     version |-> VersionParse(fields[2]).val,
     resolution |->
        [kind |-> CASE fields[3][1] = "d" -> "Dir" [] fields[3][1] = "t" -> "Tar"
                    [] OTHER -> "Index",
         url |-> UrlParse(UrlText(fields)).val]]

\* C20: every string "<group>/<name> <version> <scheme>+<url>" with the
\* scheme dir, tar or index parses to exactly that name, version and
\* resolution, and the PackageId serializes back to the identical string; a
\* string of fewer than three fields fails with InvalidPackageId.
C20_PackageIdRoundTrip ==
    Applied("PackageId::from_str") =>
        /\ WellFormed(pure.arg) =>
              /\ pure.out[1] = Ok(Spelled(pure.arg))
              /\ pure.out[2] = JoinFields(pure.arg)
        /\ Len(pure.arg) < 3 => pure.out[1] = Err("InvalidPackageId")

\* C20, amended: such a string parses to exactly that name, version and
\* resolution; the PackageId serializes to the string with the url as
\* Url::parse normalizes it, hence to the identical string when the url is
\* written in that form; fewer than three fields fail with InvalidPackageId.
C20_PackageIdNormalized ==
    Applied("PackageId::from_str") =>
        /\ WellFormed(pure.arg) =>
              /\ pure.out[1] = Ok(Spelled(pure.arg))
              /\ pure.out[2] = JoinFields(<<pure.arg[1], pure.arg[2],
                                  SubSeq(pure.arg[3], 1, Find(pure.arg[3], "+"))
                                      \o UrlAsStr(UrlParse(UrlText(pure.arg)).val)>>)
              /\ (UrlAsStr(UrlParse(UrlText(pure.arg)).val) = UrlText(pure.arg)
                     => pure.out[2] = JoinFields(pure.arg))
        /\ Len(pure.arg) < 3 => pure.out[1] = Err("InvalidPackageId")

\* a well-formed string whose url is in normalized form has been parsed and
\* serialized back to itself
C20_Witness ==
    /\ Applied("PackageId::from_str")
    /\ WellFormed(pure.arg)
    /\ UrlAsStr(UrlParse(UrlText(pure.arg)).val) = UrlText(pure.arg)
    /\ pure.out[1].ok /\ pure.out[2] = JoinFields(pure.arg)

\* C21: a load (also the one inside checkout_source) that has returned
\* invoked retrieve if and only if its check returned absent.
C21_RetrieveIffAbsent ==
    \A p \in Procs :
        (op[p] \in LoadOps /\ pc[p] = "idle")
            => (callRetr[p] > 0 <=> found[p] = "absent")

\* C21, amended: a load invokes retrieve only if its check returned absent,
\* and then only while it holds, alone, the lock of root/src/<get_src_dir(..)>;
\* a load whose check returned absent invokes retrieve once unless it failed
\* to acquire that lock; a load whose check returned a path performs no
\* retrieval and locks that path only.
C21_RetrieveUnderLock ==
    \A p \in Procs :
        op[p] \in LoadOps =>
            /\ pc[p] = "retrieve" =>
                  /\ found[p] = "absent"
                  /\ path[p] = SrcPath(req[p].name, req[p].loc, req[p].v)
                  /\ dir[p] = path[p] /\ locked[path[p]] /\ Holders(path[p]) = 1
            /\ callRetr[p] > 0 => found[p] = "absent"
            /\ (pc[p] = "idle" /\ found[p] = "absent")
                  => (callRetr[p] = 1 <=> res[p] # "LockError")
            /\ (found[p] = "present" /\ path[p] # NoPath)
                  => /\ callRetr[p] = 0
                     /\ path[p] = Check(req[p].name, req[p].loc, req[p].v)
                     /\ dir[p] \in {NoPath, path[p]}
                     /\ (pc[p] = "idle" /\ res[p] = "Ok" => ret[p] = path[p])

\* a load whose check returned absent has retrieved under its lock and
\* returned the locked directory
C21_Witness ==
    \E p \in Procs :
        /\ Returned(p, "load") /\ found[p] = "absent"
        /\ callRetr[p] = 1 /\ res[p] = "Ok" /\ ret[p] \in held[p] /\ locked[ret[p]]

\* what C22 expects of check for a non-Dir key: the hashed path of the key
\* if a directory exists there, else None
Expected(r) ==
    IF fs[SrcPath(r.name, r.loc, r.v)] # "absent" THEN SrcPath(r.name, r.loc, r.v) ELSE NoPath

\* C22: for a non-Dir key check returns Some(root/src/<get_src_dir(..)>) if
\* that path exists and None otherwise, in every state and at every call,
\* and a call of check takes no lock and creates or changes no path.
C22_CheckOnlyReads ==
    /\ [](\A r \in NonDirRequests : Check(r.name, r.loc, r.v) = Expected(r))
    /\ [][\A p \in Procs, r \in NonDirRequests :
             CheckCall(p, r) =>
                 /\ ret'[p] = Expected(r)
                 /\ UNCHANGED <<fs, mf, locked, dir, held, nRetr>>]_vars

\* a check call has returned the path of a non-Dir key that a load had
\* put on disk
C22_Witness ==
    \E p \in Procs :
        /\ op[p] = "check" /\ req[p] \in NonDirRequests
        /\ ret[p] = SrcPath(req[p].name, req[p].loc, req[p].v) /\ fs[ret[p]] = "full"

\* C23: get_src_dir hashes the version for Tar locators only: for a Git or a
\* Dir locator every version argument, None included, gives the same
\* result; for a Tar locator two different version arguments, one of which
\* may be None, give different results.
C23_VersionIffTar ==
    Applied("get_src_dir (versions)") =>
        /\ pure.arg[2].kind # "Tar" => pure.out[1] = pure.out[2]
        /\ (pure.arg[2].kind = "Tar" /\ pure.arg[3] # pure.arg[4]) => pure.out[1] # pure.out[2]

\* get_src_dir has given a Git locator the same directory for two versions
C23_Witness ==
    /\ Applied("get_src_dir (versions)")
    /\ pure.arg[2].kind = "Git"
    /\ pure.arg[3] # NoVersion /\ pure.arg[4] # NoVersion /\ pure.arg[3] # pure.arg[4]
    /\ pure.out[1] = pure.out[2]

\* C24: the CacheMeta that checkout_source builds has the manifest's version
\* and one entry for each entry of the manifest's dependencies table, in the
\* table's order, and none for dev_dependencies: a registry constraint gives
\* the cache's default index with that constraint, a pinned registry gives
\* that registry with its constraint, a local path gives a Dir resolution and
\* a git requirement a Git resolution, both with the constraint any.
C24_MetaOfManifest ==
    Applied("checkout_source (meta)") =>
        LET manifest == pure.arg[1]
            def_index == pure.arg[2]
            meta == pure.out
        IN  /\ meta.version = manifest.version
            /\ Len(meta.deps) = Len(manifest.dependencies)
            /\ \A i \in 1..Len(manifest.dependencies) :
                  LET dep == manifest.dependencies[i].val
                      pid == meta.deps[i].key
                      c == meta.deps[i].val
                  IN  /\ pid.name = manifest.dependencies[i].key
                      /\ dep.kind = "Registry" =>
                            pid.resolution = [kind |-> "Index", res |-> def_index] /\ c = dep.con
                      /\ dep.kind = "RegLong" =>
                            pid.resolution = [kind |-> "Index", res |-> dep.registry] /\ c = dep.con
                      /\ dep.kind = "Local" =>
                            /\ pid.resolution.kind = "Direct" /\ pid.resolution.res.kind = "Dir"
                            /\ pid.resolution.res.url = dep.path /\ c = ConstraintAny
                      /\ dep.kind = "Git" =>
                            /\ pid.resolution.kind = "Direct" /\ pid.resolution.res.kind = "Git"
                            /\ pid.resolution.res.repo = dep.git
                            /\ pid.resolution.res.tag = dep.spec /\ c = ConstraintAny

\* checkout_source has built the CacheMeta of a manifest with a pinned
\* registry, a git dependency and a dev-dependency
C24_Witness ==
    /\ Applied("checkout_source (meta)")
    /\ Len(pure.arg[1].dependencies) = 2
    /\ pure.arg[1].dependencies[1].val.kind = "RegLong"
    /\ pure.arg[1].dependencies[1].val.registry # pure.arg[2]
    /\ pure.arg[1].dependencies[2].val.kind = "Git"
    /\ Len(pure.arg[1].dev_dependencies) = 1
    /\ Len(pure.out.deps) = 2
    /\ pure.out.deps[1].key.resolution.kind = "Index"
    /\ pure.out.deps[2].val = ConstraintAny

\* C25: checkout_build(build) takes the lock of root/build/<build.dir_name()>
\* and never invokes retrieve; while a Binary of a Build is held, another
\* checkout_build of the same dir_name fails with a lock error, and the
\* outcome of a checkout_build of a different dir_name does not depend on it.
C25_BuildLock ==
    [][\A p \in Procs, b \in Builds :
          CheckoutBuild(p, b) =>
              LET d == Join(Join(Location, <<"b", "u", "i", "l", "d">>), DirName(b))
              IN  /\ UNCHANGED <<nRetr, mf>> /\ callRetr'[p] = 0
                  /\ \A h \in Paths \ {d} : fs'[h] = fs[h] /\ locked'[h] = locked[h]
                  /\ locked[d] => (res'[p] = "LockError" /\ UNCHANGED <<locked, held, fs>>)
                  /\ res'[p] = "Ok" =>
                        /\ ~locked[d] /\ locked'[d] /\ fs'[d] # "absent"
                        /\ ret'[p] = d /\ held'[p] = held[p] \cup {d}
                  /\ (~locked[d] /\ fs[d] # "absent") => res'[p] = "Ok"]_vars

\* a checkout_build has failed with a lock error on the directory of a
\* Build whose Binary another process holds
C25_Witness ==
    \E p \in Procs, q \in Procs, b \in Builds :
        /\ p # q
        /\ Returned(p, "checkout_build") /\ res[p] = "Ok" /\ BuildPath(b) \in held[p]
        /\ Returned(q, "checkout_build") /\ res[q] = "LockError" /\ path[q] = BuildPath(b)
        /\ locked[BuildPath(b)] /\ nRetr[BuildPath(b)] = 0

\* C26: a git specifier is formatted with the tag of its variant, so that
\* Branch(x), Commit(x) and Tag(x) give three different strings, and parsing
\* the formatted string gives the specifier back.
C26_GitSpecifierRoundTrip ==
    Applied("PkgGitSpecifier::to_string") =>
        /\ \A k \in GitKinds \ {pure.arg.kind} :
              PkgGitSpecifierToString([kind |-> k, val |-> pure.arg.val]) # pure.out.text
        /\ pure.out.parsed = Ok(pure.arg)

\* C27: when a load of an absent non-Dir key fails because retrieve fails,
\* check of that key returns None afterwards, so that a later load of the
\* key retrieves again instead of returning the directory that was left.
C27_FailedLoadLeavesAbsent ==
    [][\A p \in Procs :
          (/\ op[p] = "load" /\ req[p] \in NonDirRequests
           /\ pc[p] = "retrieve" /\ pc'[p] = "idle" /\ res'[p] = "FetchError")
              => Check(req[p].name, req[p].loc, req[p].v)' = NoPath]_vars

\* process p has called load and has not got a successful load yet
Loading(p) == op[p] = "load" /\ ~(pc[p] = "idle" /\ res[p] = "Ok")

\* a load of p got a successful load
Loaded(p) == op[p] = "load" /\ pc[p] = "idle" /\ res[p] = "Ok" /\ ret[p] # NoPath

\* every load that is running has a step it can take, whatever the other
\* processes hold, and comes to its end
NeverWaits ==
    \A p \in Procs :
        /\ [](pc[p] # "idle" => ENABLED <<LoadStep(p)>>_vars)
        /\ (pc[p] # "idle") ~> (pc[p] = "idle")

\* a DirLock::acquire fails although no handle holds the path
AcquireFailsUnlocked ==
    \E p \in Procs :
        /\ pc[p] \in {"acquire_cached", "acquire_absent"} /\ ~locked[path[p]]
        /\ pc'[p] = "idle" /\ res'[p] = "LockError"

====
